---- MODULE Spec2Model ----
(***************************************************************************)
(* A model of secretshare-py: Shamir's secret sharing over a prime field.  *)
(*                                                                         *)
(* calc.py        -> the arithmetic operators (eval_poly_at_point,         *)
(*                   _extended_gcd, _divmod, lagrange_interpolate, ...)    *)
(* secretshare.py -> the prime table, Secret, Share and the SecretShare    *)
(*                   engine (threshold, share_count, secret, shares)       *)
(* primes.py      -> the Primes helper with its own table                  *)
(*                   (get_closest_bits, get_closest, random_int)           *)
(*                                                                         *)
(* Scaling.  Python integers are unbounded and the smallest field the      *)
(* engine uses is 65537; TLC's integers are 32 bits wide and the           *)
(* interpolation multiplies several field elements before it reduces.      *)
(* The model therefore keeps the code and shrinks the byte: a byte has     *)
(* BitsPerByte = 2 bits instead of 8, and the prime table maps, as the     *)
(* source's table does, each level to a prime above 2^level (here the      *)
(* smallest), for the levels 2, 4, 8 instead of 8, 16, ..., 512.           *)
(* Everything else                                                         *)
(* (lengths, levels, max_share_count, max_point) is computed from these    *)
(* two as the code computes it.                                            *)
(***************************************************************************)
EXTENDS Integers, Sequences, FiniteSets, TLC

(***************************************************************************)
(* Bounds of the model.                                                    *)
(***************************************************************************)
\* thresholds the caller assigns: 1..MaxThreshold (1 is rejected)
MaxThreshold == 3
\* random draws considered: 0..MaxDraw and the largest possible draw
MaxDraw == 0
\* calls made before the model stops
MaxCalls == 3
\* hex strings given to from_hex: every string of up to MaxHexLen digits
MaxHexLen == 4

(***************************************************************************)
(* Python's integer operators.                                             *)
(***************************************************************************)
\* a // b : floor division, for either sign of b
FloorDiv(a, b) == IF b > 0 THEN a \div b ELSE (0 - a) \div (0 - b)

\* faulty variant: the remainder has the sign of a, as in C
PyMod_truncated(a, b) == IF a >= 0 THEN a % b ELSE 0 - ((0 - a) % b)

\* a % b : the remainder has the sign of b
PyMod(a, b) == a - b * FloorDiv(a, b)

\* ceil(a / b) for a >= 0, b > 0
Ceil(a, b) == (a + b - 1) \div b

\* int.bit_length(): the bits of the absolute value
RECURSIVE bit_length(_)
bit_length(n) ==
    IF n = 0 THEN 0
    ELSE IF n < 0 THEN bit_length(0 - n)
    ELSE 1 + bit_length(n \div 2)

\* the value Python's None stands for where an integer is expected
None == -1

(***************************************************************************)
(* calc.py                                                                 *)
(***************************************************************************)
BitsPerByte == 2

ByteBase == 2 ^ BitsPerByte

\* ceil(log2(value)) for value >= 1
RECURSIVE CeilLog2(_)
CeilLog2(value) == IF value <= 1 THEN 0 ELSE 1 + CeilLog2((value + 1) \div 2)

compute_closest_bigger_equal_pow2(value) ==
    IF value < 3 THEN 2 ELSE 2 ^ CeilLog2(value)

\* Horner's rule over reversed(poly); accum after the coefficients i..Len
RECURSIVE HornerFrom(_, _, _, _)
HornerFrom(poly, point, prime, i) ==
    IF i > Len(poly) THEN 0
    ELSE PyMod(HornerFrom(poly, point, prime, i + 1) * point + poly[i], prime)

\* faulty variant: the loop runs over poly instead of reversed(poly)
RECURSIVE HornerUpTo(_, _, _, _)
HornerUpTo(poly, point, prime, i) ==
    IF i = 0 THEN 0
    ELSE PyMod(HornerUpTo(poly, point, prime, i - 1) * point + poly[i], prime)

eval_poly_not_reversed(poly, point, prime) ==
    HornerUpTo(poly, point, prime, Len(poly))

eval_poly_at_point(poly, point, prime) == HornerFrom(poly, point, prime, 1)

\* the exception of eval_poly_at_point
eval_poly_at_point_err(prime) == IF prime < 2 THEN "ValueError" ELSE ""

\* num.to_bytes(length, 'big', signed=num < 0) where num fits: a negative
\* num is written in two's complement
to_bytes(num, length) ==
    LET n == IF num < 0 THEN num + ByteBase ^ length ELSE num
    IN  [i \in 1..length |-> (n \div (ByteBase ^ (length - i))) % ByteBase]

\* the length int_to_bytes asks to_bytes for
int_to_bytes_length(num) ==
    LET n == Ceil(bit_length(num), BitsPerByte)
    IN  IF n = 0 THEN 1 ELSE n

\* the exception of int_to_bytes: a negative num whose two's complement
\* needs one bit more than its length holds overflows in to_bytes
int_to_bytes_err(num) ==
    IF num < 0 /\ 2 * (0 - num) > ByteBase ^ int_to_bytes_length(num)
    THEN "OverflowError" ELSE ""

int_to_bytes(num) == to_bytes(num, int_to_bytes_length(num))

\* int.from_bytes(bts, 'big')
RECURSIVE bytes_to_int(_)
bytes_to_int(bts) ==
    IF Len(bts) = 0 THEN 0
    ELSE bytes_to_int(SubSeq(bts, 1, Len(bts) - 1)) * ByteBase + bts[Len(bts)]

\* the body of the while loop of _extended_gcd: the state
\* (a, b, x, last_x, y, last_y) after one turn
EuclidBody(a, b, x, last_x, y, last_y) ==
    LET quot == FloorDiv(a, b)
    IN  <<b, PyMod(a, b), last_x - quot * x, x, last_y - quot * y, y>>

\* the while loop of _extended_gcd, from the state (a, b, x, last_x, y, last_y)
RECURSIVE EuclidLoop(_, _, _, _, _, _)
EuclidLoop(a, b, x, last_x, y, last_y) ==
    IF b = 0 THEN <<last_x, last_y>>
    ELSE LET s == EuclidBody(a, b, x, last_x, y, last_y)
         IN  EuclidLoop(s[1], s[2], s[3], s[4], s[5], s[6])

\* faulty variant: the loop starts from x = 1, last_x = 0
_extended_gcd_swapped(a, b) == EuclidLoop(a, b, 1, 0, 1, 0)

_extended_gcd(a, b) == EuclidLoop(a, b, 0, 1, 1, 0)

\* faulty variant: inv is taken from the second number _extended_gcd returns
_divmod_second_coefficient(num, den, prime) ==
    num * _extended_gcd(den, prime)[2]

\* faulty variant: prime < 1 in place of prime < 2
_divmod_err_below_one(prime) == IF prime < 1 THEN "ValueError" ELSE ""

\* the exception of _divmod
_divmod_err(prime) == IF prime < 2 THEN "ValueError" ELSE ""

\* faulty variant: num is multiplied by den, not by its inverse
_divmod_no_inverse(num, den, prime) == num * den

\* num * inv, once the check of _divmod_err has passed
_divmod(num, den, prime) == num * _extended_gcd(den, prime)[1]

RECURSIVE _product(_)
_product(values) ==
    IF Len(values) = 0 THEN 1 ELSE Head(values) * _product(Tail(values))

RECURSIVE SeqSum(_)
SeqSum(values) ==
    IF Len(values) = 0 THEN 0 ELSE Head(values) + SeqSum(Tail(values))

\* others = list(x_s); others.pop(i)
Others(x_s, i) == SubSeq(x_s, 1, i - 1) \o SubSeq(x_s, i + 1, Len(x_s))

\* faulty variant: the assert is not made
Distinct_unchecked(x_s) == TRUE

Distinct(x_s) == Cardinality({x_s[i] : i \in 1..Len(x_s)}) = Len(x_s)

\* what a call ends with: an exception, or a value
Raise(e) == [err |-> e, val |-> None]
Return(v) == [err |-> "", val |-> v]

lagrange_interpolate(x, x_s, y_s, prime) ==
    IF prime = None THEN Raise("TypeError")
    ELSE IF prime < 2 THEN Raise("ValueError")
    ELSE IF ~Distinct(x_s) THEN Raise("AssertionError")
    ELSE
      LET k == Len(x_s)
          nums == [i \in 1..k |->
                     LET others == Others(x_s, i)
                     IN  _product([j \in 1..Len(others) |-> x - others[j]])]
          dens == [i \in 1..k |->
                     LET others == Others(x_s, i)
                     IN  _product([j \in 1..Len(others) |-> x_s[i] - others[j]])]
          den == _product(dens)
          num == SeqSum([i \in 1..k |->
                     _divmod(PyMod(nums[i] * den * y_s[i], prime),
                             dens[i], prime)])
      IN  Return(PyMod(_divmod(num, den, prime) + prime, prime))

(***************************************************************************)
(* secretshare.py: the prime table                                         *)
(***************************************************************************)
_PRIMES == (2 :> 5) @@ (4 :> 17) @@ (8 :> 257)

Primes_max_bits ==
    CHOOSE b \in DOMAIN _PRIMES : \A c \in DOMAIN _PRIMES : c <= b

Primes_max_bytes == Primes_max_bits \div BitsPerByte

Primes_get(bits) == IF bits \in DOMAIN _PRIMES THEN _PRIMES[bits] ELSE None

(***************************************************************************)
(* The random sources (passphrase.random.randint, passphrase.secrets.      *)
(* randbelow).                                                            *)
(***************************************************************************)
\* The draws the model takes of a source that returns any of 0..n-1: the
\* smallest ones and the largest one.
Drawn(n) == {r \in 0..(n - 1) : r <= MaxDraw \/ r = n - 1}

\* randint(nbits) returns any of 0..2^nbits-1
randint(nbits) == Drawn(2 ^ nbits)

\* randbelow(n) returns any of 0..n-1
randbelow_any(n) == 0..(n - 1)

\* faulty variant: n itself can be drawn
randbelow_inclusive(n) == Drawn(n + 1)

randbelow(n) == Drawn(n)

(***************************************************************************)
(* secretshare.py: Secret and Share                                        *)
(***************************************************************************)
\* faulty variant: a leading null byte is not rejected
Secret_value_err_no_null(value) ==
    IF Len(value) = 0 THEN "ValueError"
    ELSE IF Len(value) > Primes_max_bytes THEN "ValueError"
    ELSE ""

\* Secret.value.setter: the exception it raises, "" when it accepts
Secret_value_err(value) ==
    IF Len(value) = 0 THEN "ValueError"
    ELSE IF value[1] = 0 THEN "ValueError"
    ELSE IF Len(value) > Primes_max_bytes THEN "ValueError"
    ELSE ""

\* Secret.random() when randint returns r
Secret_random(r) == int_to_bytes(r)

Share_get_max_point == Primes_max_bits - 1

\* faulty variant: max_point is not checked
Share_point_err_no_max(point) == IF point < 1 THEN "ValueError" ELSE ""

\* Share.point.setter: the exception it raises, "" when it accepts
Share_point_err(point) ==
    IF point < 1 THEN "ValueError"
    ELSE IF point > Share_get_max_point THEN "ValueError"
    ELSE ""

\* Share(point, value)
Share(point, value) == [point |-> point, value |-> value]

\* bytes(secret), AbstractValue.__bytes__: the value as it is
Secret_bytes(value) == value

\* int(secret), AbstractValue.__int__
Secret_int(value) == bytes_to_int(Secret_bytes(value))

Share_get_max_point_bytes_len ==
    Ceil(bit_length(Share_get_max_point), BitsPerByte)

\* seq[::-1]
Reversed(seq) == [i \in 1..Len(seq) |-> seq[Len(seq) + 1 - i]]

\* seq[:n] and seq[n:]
Upto(seq, n) == SubSeq(seq, 1, IF n < Len(seq) THEN n ELSE Len(seq))
From(seq, n) == SubSeq(seq, n + 1, Len(seq))

\* faulty variant: the point field is not reversed
Share_bytes_not_reversed(share) ==
    to_bytes(share.point, Share_get_max_point_bytes_len) \o share.value

\* bytes(share), Share.__bytes__
Share_bytes(share) ==
    Reversed(to_bytes(share.point, Share_get_max_point_bytes_len))
      \o share.value

\* the point and the value Share.from_bytes reads in bytes_value
Share_from_bytes_point(bytes_value) ==
    bytes_to_int(Reversed(Upto(bytes_value, Share_get_max_point_bytes_len)))

Share_from_bytes_value(bytes_value) ==
    From(bytes_value, Share_get_max_point_bytes_len)

\* share.from_bytes(bytes_value): the point is assigned first, and a point
\* that is rejected leaves the share as it was
Share_from_bytes(share, bytes_value) ==
    LET point == Share_from_bytes_point(bytes_value)
    IN  IF Share_point_err(point) # ""
        THEN [err |-> Share_point_err(point), val |-> share]
        ELSE Return(Share(point, Share_from_bytes_value(bytes_value)))

\* secret.from_bytes(bytes_value) on a Secret whose value is value
Secret_from_bytes(value, bytes_value) ==
    IF Secret_value_err(bytes_value) # ""
    THEN [err |-> Secret_value_err(bytes_value), val |-> value]
    ELSE Return(bytes_value)

\* secret.from_int(num_value), AbstractValue.from_int
Secret_from_int(value, num_value) ==
    IF int_to_bytes_err(num_value) # ""
    THEN [err |-> int_to_bytes_err(num_value), val |-> value]
    ELSE Secret_from_bytes(value, int_to_bytes(num_value))

(***************************************************************************)
(* Hex strings.  A hex digit is half a byte: with BitsPerByte bits to the  *)
(* byte its digits are the first 2^(BitsPerByte/2) of "0", "1", ...;       *)
(* "x" is the letter of the 0x prefix.                                     *)
(***************************************************************************)
NibbleBase == 2 ^ (BitsPerByte \div 2)

HexDigits == {"0", "1"}

HexValue(c) == IF c = "0" THEN 0 ELSE 1

\* binascii.unhexlify: fails on an odd length and on a non-hex character
unhexlify(hexstr) ==
    IF Len(hexstr) % 2 # 0 THEN Raise("binascii.Error")
    ELSE IF \E i \in 1..Len(hexstr) : hexstr[i] \notin HexDigits
    THEN Raise("binascii.Error")
    ELSE Return([i \in 1..(Len(hexstr) \div 2) |->
                   HexValue(hexstr[2 * i - 1]) * NibbleBase
                     + HexValue(hexstr[2 * i])])

\* the bytes AbstractValue.from_hex passes to from_bytes, or the
\* binascii.Error of its second unhexlify, which it does not catch
from_hex_bytes(hex_value) ==
    LET hex_val == IF Upto(hex_value, 2) = <<"0", "x">>
                   THEN From(hex_value, 2) ELSE hex_value
    IN  IF unhexlify(hex_value).err = "" THEN unhexlify(hex_value)
        ELSE unhexlify(<<"0">> \o hex_val)

Secret_from_hex(value, hex_value) ==
    IF from_hex_bytes(hex_value).err # ""
    THEN [err |-> from_hex_bytes(hex_value).err, val |-> value]
    ELSE Secret_from_bytes(value, from_hex_bytes(hex_value).val)

Share_from_hex(share, hex_value) ==
    IF from_hex_bytes(hex_value).err # ""
    THEN [err |-> from_hex_bytes(hex_value).err, val |-> share]
    ELSE Share_from_bytes(share, from_hex_bytes(hex_value).val)

(***************************************************************************)
(* secretshare.py: the SecretShare engine                                  *)
(*                                                                         *)
(* threshold, share_count, secret, shares : the engine's four attributes   *)
(*          (secret is the Secret's bytes, shares the list of Share)       *)
(* last   : the last call made: its name, the exception it raised ("" when *)
(*          it returned) and where, what it returned, the locals poly and  *)
(*          prime of split and combine, and how many shares the engine     *)
(*          held when the call was made                                    *)
(* origin : history.  The secret, threshold and share count of the split   *)
(*          that produced the shares now held, while the held shares are   *)
(*          distinct shares of one split; NoOrigin otherwise               *)
(* fresh  : history.  The engine was constructed without a secret and its  *)
(*          secret is still the random one the constructor generated       *)
(* calls  : the number of calls made so far                                *)
(***************************************************************************)
VARIABLES threshold, share_count, secret, shares, last, origin, fresh, calls

vars == <<threshold, share_count, secret, shares, last, origin, fresh, calls>>

engine == <<threshold, share_count, secret, shares>>

NoOrigin == [secret |-> <<>>, threshold |-> 0, share_count |-> 0]

Called(op, err, at, ret, poly, prime) ==
    [op |-> op, err |-> err, at |-> at, ret |-> ret, poly |-> poly,
     prime |-> prime, held |-> Len(shares)]

\* a call that only assigns: no return value, no poly, no prime
Plain(op, err) == Called(op, err, "", <<>>, <<>>, None)

(***************************************************************************)
(* The inputs the model gives to the engine.                               *)
(***************************************************************************)
ThresholdInputs == 1..MaxThreshold

\* Five interpolation points already take the unreduced products of
\* lagrange_interpolate past 32 bits in the field 257, so at most 4.
ShareCountInputs == 1..4

\* Secret objects the caller builds: two bytes long (field 17) and three
\* bytes long (field 257)
SecretInputs == {int_to_bytes(7), int_to_bytes(16)}

\* the elements of seq at the indices in I, in order
RECURSIVE SubList(_, _)
SubList(seq, I) ==
    IF Len(seq) = 0 THEN <<>>
    ELSE LET rest == SubList(SubSeq(seq, 1, Len(seq) - 1), I)
         IN  IF Len(seq) \in I THEN Append(rest, seq[Len(seq)]) ELSE rest

SubLists(seq) == {SubList(seq, I) : I \in SUBSET (1..Len(seq))}

\* Share lists built by hand: the line y = x (value 0 at 0), the line
\* y = x - 1 (value prime - 1 at 0), a repeated point, a default Share().
CraftedShares ==
    { <<Share(1, int_to_bytes(1)), Share(2, int_to_bytes(2))>>,
      <<Share(1, int_to_bytes(0)), Share(2, int_to_bytes(1))>>,
      <<Share(1, int_to_bytes(1)), Share(1, int_to_bytes(2))>>,
      <<Share(1, <<>>)>> }

ShareInputs == SubLists(shares) \cup CraftedShares

\* distinct shares, all of them among the held ones
FromHeld(new) ==
    /\ Distinct(new)
    /\ \A i \in 1..Len(new) : \E j \in 1..Len(shares) : new[i] = shares[j]

(***************************************************************************)
(* The engine's properties.                                                *)
(***************************************************************************)
\* faulty variant: the length is not rounded up to a power of two
prime_of_exact_length(s) == Primes_get(Len(s) * BitsPerByte)

\* SecretShare.prime of an engine whose secret is s
prime_of(s) ==
    Primes_get(compute_closest_bigger_equal_pow2(Len(s)) * BitsPerByte)

\* faulty variant: the "- 1" is forgotten
max_share_count_off_by_one(s) ==
    compute_closest_bigger_equal_pow2(Len(s)) * BitsPerByte

\* SecretShare.max_share_count of an engine whose secret is s
max_share_count_of(s) ==
    compute_closest_bigger_equal_pow2(Len(s)) * BitsPerByte - 1

\* faulty variant: range(self.threshold - 2), one random coefficient too few
poly_one_short(s, coeffs) ==
    <<bytes_to_int(s)>> \o SubSeq(coeffs, 1, Len(coeffs) - 1)

\* SecretShare.poly when _get_random_int returns coeffs[1], coeffs[2], ...
poly_of(s, coeffs) == <<bytes_to_int(s)>> \o coeffs

\* the values _get_random_int can return threshold - 1 times
Coefficients(s, t) == [1..(t - 1) -> randbelow(prime_of(s))]

\* every list of values _get_random_int can return threshold - 1 times
AllCoefficients(s, t) == [1..(t - 1) -> randbelow_any(prime_of(s))]

(***************************************************************************)
(* The setters.                                                            *)
(***************************************************************************)
\* faulty variant: threshold < 1 in place of threshold < 2
threshold_err_below_one(t) == IF t < 1 THEN "ValueError" ELSE ""

threshold_err(t) == IF t < 2 THEN "ValueError" ELSE ""

share_count_err(n) == IF n < 2 THEN "ValueError" ELSE ""

set_threshold(t) ==
    /\ calls < MaxCalls
    /\ calls' = calls + 1
    /\ threshold' = IF threshold_err(t) = "" THEN t ELSE threshold
    /\ last' = Called("set_threshold", threshold_err(t), "", [arg |-> t],
                       <<>>, None)
    /\ UNCHANGED <<share_count, secret, shares, origin, fresh>>

set_share_count(n) ==
    /\ calls < MaxCalls
    /\ calls' = calls + 1
    /\ share_count' = IF share_count_err(n) = "" THEN n ELSE share_count
    /\ last' = Called("set_share_count", share_count_err(n), "", [arg |-> n],
                       <<>>, None)
    /\ UNCHANGED <<threshold, secret, shares, origin, fresh>>

\* faulty variant: the setter also empties the held shares
set_secret_clearing(s) ==
    /\ calls < MaxCalls
    /\ calls' = calls + 1
    /\ secret' = s
    /\ shares' = <<>>
    /\ fresh' = FALSE
    /\ last' = Plain("set_secret", "")
    /\ UNCHANGED <<threshold, share_count, origin>>

\* engine.secret = Secret(s)
set_secret(s) ==
    /\ calls < MaxCalls
    /\ calls' = calls + 1
    /\ secret' = s
    /\ fresh' = FALSE
    /\ last' = Plain("set_secret", "")
    /\ UNCHANGED <<threshold, share_count, shares, origin>>

\* engine.shares = new
set_shares(new) ==
    /\ calls < MaxCalls
    /\ calls' = calls + 1
    /\ shares' = new
    /\ origin' = IF FromHeld(new) THEN origin ELSE NoOrigin
    /\ last' = Plain("set_shares", "")
    /\ UNCHANGED <<threshold, share_count, secret, fresh>>

(***************************************************************************)
(* split and combine.                                                      *)
(***************************************************************************)
\* the list split builds from poly and prime
split_shares(poly, prime, n) ==
    [i \in 1..n |-> Share(i, int_to_bytes(eval_poly_at_point(poly, i, prime)))]

\* faulty variant: threshold > share_count is not checked
split_err_no_threshold ==
    IF share_count > max_share_count_of(secret) THEN "ValueError"
    ELSE IF \E i \in 1..share_count : Share_point_err(i) # "" THEN "ValueError"
    ELSE ""

\* the validations of split: the exception raised, "" when they pass
split_err ==
    IF share_count > max_share_count_of(secret) THEN "ValueError"
    ELSE IF threshold > share_count THEN "ValueError"
    ELSE IF \E i \in 1..share_count : Share_point_err(i) # "" THEN "ValueError"
    ELSE ""

split ==
    /\ calls < MaxCalls
    /\ calls' = calls + 1
    /\ IF split_err # ""
       THEN /\ last' = Called("split", split_err, "validation", <<>>, <<>>, None)
            /\ UNCHANGED <<shares, origin>>
       ELSE \E coeffs \in Coefficients(secret, threshold) :
              LET poly == poly_of(secret, coeffs)
                  prime == prime_of(secret)
                  made == split_shares(poly, prime, share_count)
              IN  /\ shares' = made
                  /\ origin' = [secret |-> secret, threshold |-> threshold,
                                share_count |-> share_count]
                  /\ last' = Called("split", "", "", made, poly, prime)
    /\ UNCHANGED <<threshold, share_count, secret, fresh>>

\* the validations of combine: the exception raised, "" when they pass
combine_err ==
    IF Len(shares) < 2 THEN "ValueError"
    ELSE IF Len(shares) > share_count THEN "ValueError"
    ELSE ""

combine_x_s == [i \in 1..Len(shares) |-> shares[i].point]

combine_y_s == [i \in 1..Len(shares) |-> bytes_to_int(shares[i].value)]

\* combine when the Secret() it builds draws r from randint
combine_call(r) ==
    LET prime == prime_of(secret)
        found == lagrange_interpolate(0, combine_x_s, combine_y_s, prime)
        recovered == int_to_bytes(found.val)
    IN  IF combine_err # ""
        THEN Called("combine", combine_err, "validation", <<>>, <<>>, None)
        ELSE IF found.err # ""
        THEN Called("combine", found.err, "lagrange_interpolate", <<>>, <<>>,
                    prime)
        ELSE IF Secret_value_err(Secret_random(r)) # ""
        THEN Called("combine", Secret_value_err(Secret_random(r)), "Secret()",
                    <<>>, <<>>, prime)
        ELSE IF Secret_value_err(recovered) # ""
        THEN Called("combine", Secret_value_err(recovered), "from_int", <<>>,
                    <<>>, prime)
        ELSE Called("combine", "", "", recovered, <<>>, prime)

\* faulty variant: self.secret = Secret() and then self.secret.from_int(...), so a
\* rejected value leaves the engine with the random secret
combine_in_place ==
    /\ calls < MaxCalls
    /\ calls' = calls + 1
    /\ \E r \in randint(Primes_max_bits) :
         /\ last' = combine_call(r)
         /\ secret' = IF last'.err = "" THEN last'.ret
                       ELSE IF last'.at = "from_int" THEN Secret_random(r)
                       ELSE secret
         /\ fresh' = IF last'.err = "" THEN FALSE ELSE fresh
    /\ UNCHANGED <<threshold, share_count, shares, origin>>

\* faulty variant: the shares are popped off the held list as they are read
combine_consuming ==
    /\ calls < MaxCalls
    /\ calls' = calls + 1
    /\ \E r \in randint(Primes_max_bits) :
         /\ last' = combine_call(r)
         /\ secret' = IF last'.err = "" THEN last'.ret ELSE secret
         /\ fresh' = IF last'.err = "" THEN FALSE ELSE fresh
         /\ shares' = IF last'.at = "validation" THEN shares ELSE <<>>
    /\ UNCHANGED <<threshold, share_count, origin>>

combine ==
    /\ calls < MaxCalls
    /\ calls' = calls + 1
    /\ \E r \in randint(Primes_max_bits) :
         /\ last' = combine_call(r)
         /\ secret' = IF last'.err = "" THEN last'.ret ELSE secret
         /\ fresh' = IF last'.err = "" THEN FALSE ELSE fresh
    /\ UNCHANGED <<threshold, share_count, shares, origin>>

(***************************************************************************)
(* SecretShare(t, n, secret=s, shares=sh): a new engine takes the place of *)
(* the modelled one.  s = <<>> is "no secret given"; sh is either <<>>     *)
(* ("no shares given") or the shares the old engine held, which stay in    *)
(* the caller's hands.  A constructor that raises makes no engine: the     *)
(* old one stays.                                                          *)
(***************************************************************************)
\* the exception the constructor raises, "" when it makes an engine; r is
\* what randint returns to the Secret() built when no secret is given
init_err(t, n, s, r) ==
    IF threshold_err(t) # "" THEN threshold_err(t)
    ELSE IF share_count_err(n) # "" THEN share_count_err(n)
    ELSE IF s = <<>> THEN Secret_value_err(Secret_random(r))
    ELSE ""

SecretShare_init(t, n, s, sh) ==
    /\ calls < MaxCalls
    /\ calls' = calls + 1
    /\ \E r \in IF s = <<>> THEN randint(Primes_max_bits) ELSE {0} :
         IF init_err(t, n, s, r) # ""
         THEN /\ last' = Plain("SecretShare", init_err(t, n, s, r))
              /\ UNCHANGED <<threshold, share_count, secret, shares, origin,
                             fresh>>
         ELSE /\ threshold' = t
              /\ share_count' = n
              /\ secret' = IF s = <<>> THEN Secret_random(r) ELSE s
              /\ shares' = sh
              /\ origin' = IF sh = <<>> THEN NoOrigin ELSE origin
              /\ fresh' = (s = <<>>)
              /\ last' = Plain("SecretShare", "")

(***************************************************************************)
(* The specification.                                                      *)
(***************************************************************************)
Init ==
    /\ threshold \in {t \in ThresholdInputs : threshold_err(t) = ""}
    /\ share_count \in {n \in ShareCountInputs : share_count_err(n) = ""}
    /\ fresh \in BOOLEAN
    /\ secret \in IF fresh
                  THEN {Secret_random(r) : r \in
                          {q \in randint(Primes_max_bits) :
                             Secret_value_err(Secret_random(q)) = ""}}
                  ELSE SecretInputs
    /\ shares = <<>>
    /\ last = [Plain("SecretShare", "") EXCEPT !.held = 0]
    /\ origin = NoOrigin
    /\ calls = 0

Next ==
    \/ \E t \in ThresholdInputs : set_threshold(t)
    \/ \E n \in ShareCountInputs : set_share_count(n)
    \/ \E s \in SecretInputs : set_secret(s)
    \/ \E new \in ShareInputs : set_shares(new)
    \/ split
    \/ combine
    \/ \E t \in {1, threshold}, n \in {1, share_count},
          s \in {<<>>, secret}, sh \in {<<>>, shares} :
          SecretShare_init(t, n, s, sh)

Spec == Init /\ [][Next]_vars

(***************************************************************************)
(* What fewer than threshold shares show.  An engine is built with a       *)
(* secret of the smallest field; observe(P, other) takes the points P,     *)
(* fewer than threshold of 1..share_count, and tabulates, over every list  *)
(* of coefficients split can draw, the values split puts at those points:  *)
(* once for the engine's secret and once for the secret other.             *)
(***************************************************************************)
\* the valid secrets of the engine's smallest field: one and two bytes long
SmallFieldSecrets == {int_to_bytes(v) : v \in 1..(ByteBase ^ 2 - 1)}

\* the j-th list of t - 1 coefficients below prime, j in 0..prime^(t-1)-1
CoefficientList(j, t, prime) ==
    [i \in 1..(t - 1) |-> (j \div (prime ^ (i - 1))) % prime]

\* the points of P in increasing order
RECURSIVE Ascending(_)
Ascending(P) ==
    IF P = {} THEN <<>>
    ELSE LET top == CHOOSE p \in P : \A q \in P : q <= p
         IN  Append(Ascending(P \ {top}), top)

\* the values at the points P of the shares split makes of s with coeffs,
\* as one number: the value at the i-th point is its i-th digit to the base
\* prime
Observed(s, coeffs, n, P) ==
    LET made == split_shares(poly_of(s, coeffs), prime_of(s), n)
        at == Ascending(P)
    IN  SeqSum([i \in 1..Len(at) |->
                  bytes_to_int(made[at[i]].value) * prime_of(s) ^ (i - 1)])

\* for each vector of values, the number of lists in codes that produce it
CountEach(codes, vectors) ==
    [v \in vectors |-> Cardinality({j \in DOMAIN codes : codes[j] = v})]

\* each vector of values at the points P with the number of coefficient
\* lists, of all that split can draw, that produce it
View(s, t, n, P) ==
    CountEach([j \in 0..(prime_of(s) ^ (t - 1) - 1) |->
                 Observed(s, CoefficientList(j, t, prime_of(s)), n, P)],
              0..(prime_of(s) ^ Cardinality(P) - 1))

observe(P, other) ==
    /\ calls = 0
    /\ calls' = 1
    /\ last' = Called("observe", "", "",
                      [points |-> P, other |-> other,
                       view |-> View(secret, threshold, share_count, P),
                       view_other |-> View(other, threshold, share_count, P)],
                      <<>>, prime_of(secret))
    /\ UNCHANGED <<threshold, share_count, secret, shares, origin, fresh>>

SecrecyInit ==
    /\ secret \in SmallFieldSecrets
    /\ share_count \in {n \in ShareCountInputs :
                          /\ share_count_err(n) = ""
                          /\ n <= max_share_count_of(secret)}
    /\ threshold \in {t \in 1..share_count : threshold_err(t) = ""}
    /\ shares = <<>>
    /\ last = Plain("SecretShare", "")
    /\ origin = NoOrigin
    /\ fresh = FALSE
    /\ calls = 0

SecrecyNext ==
    \E P \in SUBSET (1..share_count), other \in SmallFieldSecrets :
       /\ P # {}
       /\ Cardinality(P) < threshold
       /\ observe(P, other)

SecrecySpec == SecrecyInit /\ [][SecrecyNext]_vars

(***************************************************************************)
(* Secret and Share objects.  A caller holds one object, a Secret or a     *)
(* Share, and calls its constructor, setters and decoders (no operation    *)
(* of a Secret reads a Share, nor the other way round).  secret is the     *)
(* value of the Secret; shares is the one-element list of the Share, and   *)
(* empty while the caller works on the Secret.  last.ret is the argument   *)
(* of the call and what the object the call worked on held afterwards.     *)
(***************************************************************************)
BytesInputs ==
    {<<>>, <<0>>, <<1>>, <<0, 1>>, <<3, 0>>, <<1, 2, 3, 0>>, <<1, 0, 0, 0, 0>>}

IntInputs == {-3, -1, 0, 1, 6, 255, 256}

PointInputs == {-1, 0, 1, 2, Share_get_max_point, Share_get_max_point + 1}

ShareValueInputs == {<<>>, <<0, 1>>, <<3, 0, 2>>}

ShareBytesInputs ==
    {<<>>, <<1>>, <<0, 0>>, <<1, 0>>, <<3, 1>>, <<0, 2>>, <<1, 0, 0>>,
     <<2, 0, 1, 3>>}

HexStrings == UNION {[1..k -> HexDigits] : k \in 0..MaxHexLen}

HexInputs ==
    HexStrings \cup {<<"0", "x">> \o d : d \in HexStrings}
      \cup {<<"x">>, <<"0", "x", "x", "1">>}

\* calls made on the object before the model stops
MaxValueCalls == MaxCalls - 1

ValueStep(op, arg, err, new_secret, new_shares, out) ==
    /\ calls' = calls + 1
    /\ secret' = new_secret
    /\ shares' = new_shares
    /\ last' = Called(op, err, "", [arg |-> arg, out |-> out], <<>>, None)
    /\ UNCHANGED <<threshold, share_count, origin, fresh>>

OnSecret == calls < MaxValueCalls /\ shares = <<>>

OnShare == calls < MaxValueCalls /\ shares # <<>>

\* Secret(value): a Secret that cannot be built leaves the caller with the
\* one it had
call_Secret(value, r) ==
    LET res == Secret_from_bytes(secret, IF value = <<>> THEN Secret_random(r)
                                         ELSE value)
    IN  /\ OnSecret
        /\ ValueStep("Secret", value, res.err, res.val, shares, res.val)

\* secret.value = bytes_value, secret.from_bytes(bytes_value)
call_Secret_from_bytes(bytes_value) ==
    LET res == Secret_from_bytes(secret, bytes_value)
    IN  /\ OnSecret
        /\ ValueStep("Secret.from_bytes", bytes_value, res.err, res.val,
                     shares, res.val)

call_Secret_from_int(num_value) ==
    LET res == Secret_from_int(secret, num_value)
    IN  /\ OnSecret
        /\ ValueStep("Secret.from_int", num_value, res.err, res.val, shares,
                     res.val)

call_Secret_from_hex(hex_value) ==
    LET res == Secret_from_hex(secret, hex_value)
    IN  /\ OnSecret
        /\ ValueStep("Secret.from_hex", hex_value, res.err, res.val, shares,
                     res.val)

\* other = Secret(value); other.from_bytes(bytes(secret))
call_Secret_decode_bytes(value) ==
    LET res == Secret_from_bytes(value, Secret_bytes(secret))
    IN  /\ OnSecret
        /\ Secret_value_err(value) = ""
        /\ ValueStep("Secret.from_bytes(bytes)", value, res.err, secret,
                     shares, res.val)

\* other = Secret(value); other.from_int(int(secret))
call_Secret_decode_int(value) ==
    LET res == Secret_from_int(value, Secret_int(secret))
    IN  /\ OnSecret
        /\ Secret_value_err(value) = ""
        /\ ValueStep("Secret.from_int(int)", value, res.err, secret, shares,
                     res.val)

\* Share(point, value): the value is assigned, then the point; a Share that
\* cannot be built leaves the caller with the one it had
call_Share(point, value) ==
    LET made == IF Share_point_err(point) = "" THEN Share(point, value)
                ELSE shares[1]
    IN  /\ OnShare
        /\ ValueStep("Share", <<point, value>>, Share_point_err(point),
                     secret, <<made>>, made)

\* share.point = point
call_Share_point(point) ==
    LET made == IF Share_point_err(point) = ""
                THEN Share(point, shares[1].value) ELSE shares[1]
    IN  /\ OnShare
        /\ ValueStep("Share.point", point, Share_point_err(point), secret,
                     <<made>>, made)

\* share.value = value
call_Share_value(value) ==
    /\ OnShare
    /\ ValueStep("Share.value", value, "", secret,
                 <<Share(shares[1].point, value)>>,
                 Share(shares[1].point, value))

call_Share_from_bytes(bytes_value) ==
    LET res == Share_from_bytes(shares[1], bytes_value)
    IN  /\ OnShare
        /\ ValueStep("Share.from_bytes", bytes_value, res.err, secret,
                     <<res.val>>, res.val)

call_Share_from_hex(hex_value) ==
    LET res == Share_from_hex(shares[1], hex_value)
    IN  /\ OnShare
        /\ ValueStep("Share.from_hex", hex_value, res.err, secret,
                     <<res.val>>, res.val)

\* other = Share(point, value); other.from_bytes(bytes(share))
call_Share_decode_bytes(point, value) ==
    LET res == Share_from_bytes(Share(point, value), Share_bytes(shares[1]))
    IN  /\ OnShare
        /\ Share_point_err(point) = ""
        /\ ValueStep("Share.from_bytes(bytes)", <<point, value>>, res.err,
                     secret, shares, res.val)

ValueInit ==
    /\ \/ /\ secret \in {v \in BytesInputs : Secret_value_err(v) = ""}
          /\ shares = <<>>
       \/ /\ secret = <<1>>
          /\ shares = <<Share(1, <<>>)>>
    /\ threshold = 2
    /\ share_count = 3
    /\ last = Plain("Secret", "")
    /\ origin = NoOrigin
    /\ fresh = FALSE
    /\ calls = 0

ValueNext ==
    \/ \E value \in BytesInputs, r \in randint(Primes_max_bits) :
          call_Secret(value, r)
    \/ \E bytes_value \in BytesInputs : call_Secret_from_bytes(bytes_value)
    \/ \E num_value \in IntInputs : call_Secret_from_int(num_value)
    \/ \E hex_value \in HexInputs : call_Secret_from_hex(hex_value)
    \/ \E value \in BytesInputs : call_Secret_decode_bytes(value)
    \/ \E value \in BytesInputs : call_Secret_decode_int(value)
    \/ \E point \in PointInputs, value \in ShareValueInputs :
          call_Share(point, value)
    \/ \E point \in PointInputs : call_Share_point(point)
    \/ \E value \in ShareValueInputs : call_Share_value(value)
    \/ \E bytes_value \in ShareBytesInputs :
          call_Share_from_bytes(bytes_value)
    \/ \E hex_value \in HexInputs : call_Share_from_hex(hex_value)
    \/ \E point \in PointInputs, value \in ShareValueInputs :
          call_Share_decode_bytes(point, value)

ValueSpec == ValueInit /\ [][ValueNext]_vars

(***************************************************************************)
(* primes.py: the Primes helper with its own table.  The source's table    *)
(* has levels 128, 256, ..., 8192, each twice the one before; the primes   *)
(* of 128 and 256 are just above 2^level, the prime of 512 is the          *)
(* Mersenne prime 2^521 - 1, and the primes of 1024 and above are below    *)
(* 2^level.  The table here has one level of each kind, in the order the   *)
(* source lists them; Primes.get returns the decoded number.               *)
(***************************************************************************)
primes_PRIMES == <<[bits |-> 2, prime |-> 5], [bits |-> 4, prime |-> 31],
                   [bits |-> 8, prime |-> 197]>>

primes_keys == {primes_PRIMES[i].bits : i \in 1..Len(primes_PRIMES)}

primes_min_bits == CHOOSE b \in primes_keys : \A c \in primes_keys : b <= c

primes_max_bits == CHOOSE b \in primes_keys : \A c \in primes_keys : c <= b

\* Primes.get(bits)
primes_get(bits) ==
    IF bits \in primes_keys
    THEN (CHOOSE i \in 1..Len(primes_PRIMES) : primes_PRIMES[i].bits = bits)
    ELSE 0

primes_get_prime(bits) ==
    IF primes_get(bits) = 0 THEN None ELSE primes_PRIMES[primes_get(bits)].prime

primes_biggest == primes_get_prime(primes_max_bits)

\* faulty variant: bts > bits in place of bts >= bits
RECURSIVE primes_first_above(_, _)
primes_first_above(bits, i) ==
    IF i > Len(primes_PRIMES) THEN None
    ELSE IF primes_PRIMES[i].bits > bits THEN primes_PRIMES[i].bits
    ELSE primes_first_above(bits, i + 1)

\* the for loop of get_closest_bits(bits=bits) from the i-th entry on
RECURSIVE primes_first_from(_, _)
primes_first_from(bits, i) ==
    IF i > Len(primes_PRIMES) THEN None
    ELSE IF primes_PRIMES[i].bits >= bits THEN primes_PRIMES[i].bits
    ELSE primes_first_from(bits, i + 1)

\* Primes.get_closest_bits(bits=bits)
get_closest_bits_by_bits(bits) == primes_first_from(bits, 1)

\* Primes.get_closest_bits(num=num)
get_closest_bits_by_num(num) ==
    LET get_bits == get_closest_bits_by_bits(bit_length(num))
    IN  IF get_bits = None THEN None
        ELSE IF primes_get_prime(get_bits) > num THEN get_bits
        ELSE get_closest_bits_by_bits(get_bits * 2)

\* Primes.get_closest(bits=bits) and Primes.get_closest(num=num)
get_closest_by_bits(bits) == primes_get_prime(get_closest_bits_by_bits(bits))

get_closest_by_num(num) == primes_get_prime(get_closest_bits_by_num(num))

\* the checks of Primes.random_int
random_int_err(bits) ==
    IF bits < primes_min_bits THEN "ValueError"
    ELSE IF bits > primes_max_bits THEN "ValueError"
    ELSE ""

\* faulty variant: no sample is accepted
random_int_redraws_always(random_number, prime) == TRUE

\* the test of the while loop of Primes.random_int
random_int_redraws(random_number, prime) == random_number > prime

(***************************************************************************)
(* Calls of the Primes helper.  last.ret is the argument and the result;   *)
(* last.at is "while" as long as random_int is in its loop, with the       *)
(* sample it has drawn in last.ret.out.                                    *)
(***************************************************************************)
BitsInputs == (0 - 1)..(primes_max_bits + 2)

NumInputs == 0..(2 * primes_biggest)

\* every value randint(nbits) can return
randint_any(nbits) == 0..(2 ^ nbits - 1)

PrimesStep(op, at, arg, err, out, prime) ==
    /\ last' = Called(op, err, at, [arg |-> arg, out |-> out], <<>>, prime)
    /\ UNCHANGED <<threshold, share_count, secret, shares, origin, fresh>>

call_get_closest_bits_by_bits(bits) ==
    /\ calls = 0
    /\ calls' = 1
    /\ PrimesStep("get_closest_bits(bits)", "", bits, "",
                  get_closest_bits_by_bits(bits), get_closest_by_bits(bits))

call_get_closest_bits_by_num(num) ==
    /\ calls = 0
    /\ calls' = 1
    /\ PrimesStep("get_closest_bits(num)", "", num, "",
                  get_closest_bits_by_num(num), get_closest_by_num(num))

\* random_int(bits) up to its first sample
random_int(bits) ==
    /\ calls = 0
    /\ calls' = 1
    /\ IF random_int_err(bits) # ""
       THEN PrimesStep("random_int", "", bits, random_int_err(bits), None,
                       None)
       ELSE \E random_number \in randint_any(bits) :
              PrimesStep("random_int",
                         IF random_int_redraws(random_number,
                                               get_closest_by_bits(bits))
                         THEN "while" ELSE "",
                         bits, "", random_number, get_closest_by_bits(bits))

\* one more turn of the while loop of random_int
random_int_while ==
    /\ last.op = "random_int"
    /\ last.at = "while"
    /\ UNCHANGED calls
    /\ \E random_number \in randint_any(last.ret.arg) :
         PrimesStep("random_int",
                    IF random_int_redraws(random_number, last.prime)
                    THEN "while" ELSE "",
                    last.ret.arg, "", random_number, last.prime)

PrimesInit ==
    /\ threshold = 2
    /\ share_count = 3
    /\ secret = <<1>>
    /\ shares = <<>>
    /\ last = Plain("Primes", "")
    /\ origin = NoOrigin
    /\ fresh = FALSE
    /\ calls = 0

PrimesNext ==
    \/ \E bits \in BitsInputs : call_get_closest_bits_by_bits(bits)
    \/ \E num \in NumInputs : call_get_closest_bits_by_num(num)
    \/ \E bits \in BitsInputs : random_int(bits)
    \/ random_int_while

PrimesSpec == PrimesInit /\ [][PrimesNext]_vars

(***************************************************************************)
(* Calls of the functions of calc.py, one call on arguments of the         *)
(* caller's choosing.  last.ret is the arguments and the result.           *)
(***************************************************************************)
CoeffInputs == (0 - 1)..4

PolyInputs == UNION {[1..n -> CoeffInputs] : n \in 0..MaxThreshold}

PolyPointInputs == (0 - 2)..3

\* the functions refuse a modulus below 2
ModulusInputs == {0 - 1, 0, 1, 2, 3, 5}

\* the x of the points given to lagrange_interpolate, and the x asked for
XInputs == {0 - 1, 0, 1, 2, 6}

AtInputs == {0, 3}

DividendInputs == (0 - 1)..5

DenInputs == (0 - 7)..7

GcdInputs == (0 - 6)..6

DistinctMod(x_s, prime) ==
    \A i, j \in 1..Len(x_s) : i # j => (x_s[i] - x_s[j]) % prime # 0

\* lists of up to MaxThreshold points that differ modulo prime, and lists
\* that hold a point more than once
XListInputs(prime) ==
    IF prime < 2 THEN {<<>>, <<1>>, <<0, 2>>, <<1, 1>>}
    ELSE {x_s \in UNION {[1..k -> XInputs] : k \in 0..MaxThreshold} :
            DistinctMod(x_s, prime)}
           \cup {<<1, 1>>, <<2, 0, 2>>, <<6, 6, 6>>}

\* the y given with k points: every list over the field, and over 0..1
\* where prime is no field
YListInputs(k, prime) ==
    [1..k -> 0..(IF prime < 2 THEN 1 ELSE prime - 1)]

CalcStep(op, arg, err, out) ==
    /\ calls' = calls + 1
    /\ last' = Called(op, err, "", [arg |-> arg, out |-> out], <<>>, None)
    /\ UNCHANGED <<threshold, share_count, secret, shares, origin, fresh>>

call_eval_poly_at_point ==
    /\ calls = 0
    /\ \E poly \in PolyInputs, point \in PolyPointInputs,
          prime \in ModulusInputs :
          CalcStep("eval_poly_at_point", <<poly, point, prime>>,
                   eval_poly_at_point_err(prime),
                   IF eval_poly_at_point_err(prime) # "" THEN None
                   ELSE eval_poly_at_point(poly, point, prime))

call_lagrange_interpolate ==
    /\ calls = 0
    /\ \E prime \in ModulusInputs :
         \E x \in AtInputs, x_s \in XListInputs(prime) :
           \E y_s \in YListInputs(Len(x_s), prime) :
             CalcStep("lagrange_interpolate", <<x, x_s, y_s, prime>>,
                      lagrange_interpolate(x, x_s, y_s, prime).err,
                      lagrange_interpolate(x, x_s, y_s, prime).val)

call_divmod ==
    /\ calls = 0
    /\ \E num \in DividendInputs, den \in DenInputs,
          prime \in ModulusInputs :
          CalcStep("_divmod", <<num, den, prime>>, _divmod_err(prime),
                   IF _divmod_err(prime) # "" THEN None
                   ELSE _divmod(num, den, prime))

call_extended_gcd ==
    /\ calls = 0
    /\ \E a \in GcdInputs, b \in GcdInputs :
          CalcStep("_extended_gcd", <<a, b>>, "", _extended_gcd(a, b))

CalcInit ==
    /\ threshold = 2
    /\ share_count = 3
    /\ secret = <<1>>
    /\ shares = <<>>
    /\ last = Plain("calc", "")
    /\ origin = NoOrigin
    /\ fresh = FALSE
    /\ calls = 0

\* one call, and the model stops
CalcNext ==
    \/ call_eval_poly_at_point
    \/ call_lagrange_interpolate
    \/ call_divmod
    \/ call_extended_gcd

CalcSpec == CalcInit /\ [][CalcNext]_vars

(***************************************************************************)
(* The properties prime and max_share_count of an engine, read on an       *)
(* engine that holds any of the Secrets there are.                         *)
(***************************************************************************)
\* every value a Secret can hold
AllSecrets ==
    {v \in UNION {[1..n -> 0..(ByteBase - 1)] : n \in 1..(Primes_max_bytes + 1)} :
       Secret_value_err(v) = ""}

get_prime ==
    /\ calls < 2
    /\ calls' = calls + 1
    /\ last' = Called("prime", "", "", [out |-> prime_of(secret)], <<>>,
                      prime_of(secret))
    /\ UNCHANGED <<threshold, share_count, secret, shares, origin, fresh>>

get_max_share_count ==
    /\ calls < 2
    /\ calls' = calls + 1
    /\ last' = Called("max_share_count", "", "",
                      [out |-> max_share_count_of(secret)], <<>>, None)
    /\ UNCHANGED <<threshold, share_count, secret, shares, origin, fresh>>

FieldInit ==
    /\ threshold = 2
    /\ share_count = 3
    /\ secret \in AllSecrets
    /\ shares = <<>>
    /\ last = [Plain("SecretShare", "") EXCEPT !.held = 0]
    /\ origin = NoOrigin
    /\ fresh = FALSE
    /\ calls = 0

FieldNext ==
    \/ get_prime
    \/ get_max_share_count

FieldSpec == FieldInit /\ [][FieldNext]_vars

(***************************************************************************)
(* The two while loops, turn by turn.  last.at is "while" as long as the   *)
(* call is in its loop; for _extended_gcd last.ret.out is then the state   *)
(* (a, b, x, last_x, y, last_y) of the loop.  The random source is fair:   *)
(* a source that can return an accepted sample at every draw does so at    *)
(* some draw.                                                              *)
(***************************************************************************)
\* _extended_gcd(a, b) up to its loop
enter_extended_gcd(a, b) ==
    /\ calls = 0
    /\ calls' = 1
    /\ last' = Called("_extended_gcd", "", "while",
                      [arg |-> <<a, b>>, out |-> <<a, b, 0, 1, 1, 0>>],
                      <<>>, None)
    /\ UNCHANGED <<threshold, share_count, secret, shares, origin, fresh>>

\* one turn of the loop: while b != 0
extended_gcd_while ==
    /\ last.op = "_extended_gcd"
    /\ last.at = "while"
    /\ last.ret.out[2] # 0
    /\ last' = [last EXCEPT !.ret.out =
                  EuclidBody(last.ret.out[1], last.ret.out[2], last.ret.out[3],
                             last.ret.out[4], last.ret.out[5],
                             last.ret.out[6])]
    /\ UNCHANGED <<threshold, share_count, secret, shares, origin, fresh,
                   calls>>

\* b = 0: return last_x, last_y
extended_gcd_return ==
    /\ last.op = "_extended_gcd"
    /\ last.at = "while"
    /\ last.ret.out[2] = 0
    /\ last' = [last EXCEPT !.at = "",
                            !.ret.out = <<last.ret.out[4], last.ret.out[6]>>]
    /\ UNCHANGED <<threshold, share_count, secret, shares, origin, fresh,
                   calls>>

\* a turn of the loop of random_int that draws an accepted sample
random_int_accepted == random_int_while /\ last'.at = ""

LoopInit ==
    /\ threshold = 2
    /\ share_count = 3
    /\ secret = <<1>>
    /\ shares = <<>>
    /\ last = Plain("calc", "")
    /\ origin = NoOrigin
    /\ fresh = FALSE
    /\ calls = 0

LoopNext ==
    \/ \E a \in GcdInputs, b \in GcdInputs : enter_extended_gcd(a, b)
    \/ extended_gcd_while
    \/ extended_gcd_return
    \/ \E bits \in BitsInputs : random_int(bits)
    \/ random_int_while

LoopSpec ==
    /\ LoopInit
    /\ [][LoopNext]_vars
    /\ WF_vars(extended_gcd_while)
    /\ WF_vars(extended_gcd_return)
    /\ WF_vars(random_int_accepted)

(***************************************************************************)
(* What the properties below are stated with, written from the            *)
(* definitions of the scheme and not from the code above.                  *)
(***************************************************************************)
\* the step just taken was a call of op
Did(op) == calls' = calls + 1 /\ last'.op = op

RECURSIVE SmallestPow2AtLeast(_, _)
SmallestPow2AtLeast(n, p) == IF p >= n THEN p ELSE SmallestPow2AtLeast(n, 2 * p)

\* the bit level of the field of a secret of len bytes: BitsPerByte times the
\* smallest power of two >= len, and at least two bytes' worth
FieldLevel(len) ==
    LET level == BitsPerByte * SmallestPow2AtLeast(len, 1)
    IN  IF level < 2 * BitsPerByte THEN 2 * BitsPerByte ELSE level

FieldPrime(len) == _PRIMES[FieldLevel(len)]

\* sum of poly[i] * x^(i-1)
RECURSIVE PolyValue(_, _)
PolyValue(poly, x) ==
    IF Len(poly) = 0 THEN 0 ELSE Head(poly) + x * PolyValue(Tail(poly), x)

\* the largest value among the held shares
LargestHeld ==
    CHOOSE v \in {bytes_to_int(shares[i].value) : i \in 1..Len(shares)} :
      \A i \in 1..Len(shares) : bytes_to_int(shares[i].value) <= v

\* the held shares are distinct shares of one split of the engine's own
\* secret, made with the engine's threshold and share count
HoldsOwnShares ==
    /\ origin # NoOrigin
    /\ origin.secret = secret
    /\ origin.threshold = threshold
    /\ origin.share_count = share_count

(***************************************************************************)
(* C1.  Threshold correctness: on an engine that holds S, after split(),   *)
(* with the held shares replaced by any k of the produced shares,          *)
(* threshold <= k <= share_count, combine() returns a Secret equal to S.   *)
(***************************************************************************)
C1_ThresholdCorrectness ==
    [][(Did("combine") /\ HoldsOwnShares /\ Len(shares) >= threshold)
         => (last'.err = "" /\ last'.ret = origin.secret
             /\ secret' = origin.secret)]_vars

\* What does hold: such a combine fails only in the Secret() it builds
\* before it stores the result, and otherwise returns S.
C1_RecoversUnlessSecretFails ==
    [][(Did("combine") /\ HoldsOwnShares /\ Len(shares) >= threshold)
         => \/ last'.err # "" /\ last'.at = "Secret()"
            \/ last'.err = "" /\ last'.ret = origin.secret
               /\ secret' = origin.secret]_vars

(***************************************************************************)
(* C2.  Combining in a fresh engine: at least threshold shares of a split  *)
(* of S, loaded into a new engine with the same threshold and share_count  *)
(* whose secret is the default random one, combine to S.  (The failure of  *)
(* the Secret() that combine builds, which refutes C1, is granted here:    *)
(* what violates this formula is a combine that returns another secret     *)
(* than S, or fails on the value it interpolated.)                         *)
(***************************************************************************)
C2_FreshEngineCombine ==
    [][(/\ Did("combine")
        /\ fresh
        /\ origin # NoOrigin
        /\ origin.secret # secret
        /\ origin.threshold = threshold
        /\ origin.share_count = share_count
        /\ Len(shares) >= threshold)
         => \/ last'.err = "" /\ last'.ret = origin.secret
            \/ last'.err # "" /\ last'.at = "Secret()"]_vars

C4_Secrecy ==
    last.op = "observe"
      => /\ last.ret.view = last.ret.view_other
         /\ \A v \in DOMAIN last.ret.view :
              last.ret.view[v] * last.prime ^ Cardinality(last.ret.points)
                = Cardinality(AllCoefficients(secret, threshold))

\* threshold - 1 points of a threshold-3 split, seen for two secrets
C4_Secrecy_witness ==
    /\ last.op = "observe"
    /\ threshold = 3
    /\ Cardinality(last.ret.points) = threshold - 1
    /\ last.ret.other # secret
    /\ \E v \in DOMAIN last.ret.view : last.ret.view[v] > 0

(***************************************************************************)
(* C5.  In every reachable engine state threshold <= share_count.          *)
(***************************************************************************)
C5_ThresholdAtMostShareCount == threshold <= share_count

\* C5 as amended: threshold <= share_count holds in every state a
\* successful split leaves (the constructor and the setters accept
\* threshold > share_count; split is what rejects it).
C5_AfterSplit ==
    (last.op = "split" /\ last.err = "") => threshold <= share_count

C5_AfterSplit_witness ==
    /\ last.op = "split" /\ last.err = ""
    /\ threshold = MaxThreshold /\ share_count = threshold

(***************************************************************************)
(* C6.  Assigning engine.secret clears the held shares.                    *)
(***************************************************************************)
C6_SecretClearsShares ==
    [][Did("set_secret") => shares' = <<>>]_vars

\* C6 as amended: assigning engine.secret, by the caller or by a successful
\* combine, leaves the held shares as they were; the secret is what changes.
C6_SecretKeepsShares ==
    [][((Did("set_secret") \/ (Did("combine") /\ last'.err = ""))
          => (shares' = shares /\ last'.held = Len(shares')))
       /\ (Did("set_secret") => secret' \in SecretInputs)]_vars

C6_SecretKeepsShares_witness ==
    /\ last.op = "set_secret"
    /\ origin # NoOrigin
    /\ Len(shares) = share_count
    /\ secret # origin.secret

(***************************************************************************)
(* C7.  split() and combine() are atomic: when either fails, threshold,    *)
(* share_count, secret and the held shares are what they were.             *)
(***************************************************************************)
C7_Atomic ==
    [][((Did("split") \/ Did("combine")) /\ last'.err # "")
         => engine' = engine]_vars

\* a combine that failed on an interpolated value that is no valid Secret
C7_Atomic_witness ==
    /\ last.op = "combine"
    /\ last.err = "ValueError"
    /\ last.at = "from_int"
    /\ Len(shares) >= threshold

C9_SplitShares ==
    (last.op = "split" /\ last.err = "")
      => /\ Len(shares) = share_count
         /\ Len(last.poly) = threshold
         /\ \A i \in 1..Len(shares) :
              /\ shares[i].point = i
              /\ bytes_to_int(shares[i].value)
                   = PolyValue(last.poly, i) % FieldPrime(Len(secret))
              /\ shares[i].value
                   = int_to_bytes(bytes_to_int(shares[i].value))
         /\ last.ret = shares

\* a split made while the engine held the shares of an earlier split, with
\* a value that wrapped around the prime
C9_SplitShares_witness ==
    /\ last.op = "split" /\ last.err = ""
    /\ last.held > 0
    /\ \E i \in 1..Len(shares) :
         PolyValue(last.poly, i) >= FieldPrime(Len(secret))

(***************************************************************************)
(* C10.  combine() interpolates over the field prime sized to the largest  *)
(* held share value, whatever secret the engine holds.                     *)
(***************************************************************************)
C10_PrimeFromShares ==
    (last.op = "combine" /\ last.at # "validation")
      => last.prime = FieldPrime(Len(int_to_bytes(LargestHeld)))

(***************************************************************************)
(* C11.  Round trip: decoding into another object the byte form or the     *)
(* integer form of a valid Secret yields its value; the byte form of a     *)
(* Share is its point, least significant byte first in a field of the      *)
(* fewest bytes that hold max_point, followed by its value, and decoding   *)
(* it into another Share yields the same point and value.                  *)
(***************************************************************************)
\* the fewest bytes that hold every number up to n
RECURSIVE BytesFor(_, _)
BytesFor(n, w) == IF ByteBase ^ w > n THEN w ELSE BytesFor(n, w + 1)

PointWidth == BytesFor(Primes_max_bits - 1, 0)

\* bts is the byte form of the share s
IsShareBytes(bts, s) ==
    /\ Len(bts) = PointWidth + Len(s.value)
    /\ SeqSum([i \in 1..PointWidth |-> bts[i] * ByteBase ^ (i - 1)]) = s.point
    /\ \A i \in 1..Len(s.value) : bts[PointWidth + i] = s.value[i]

C11_RoundTrip ==
    [][/\ (Did("Secret.from_bytes(bytes)") \/ Did("Secret.from_int(int)"))
            => (last'.err = "" /\ last'.ret.out = secret)
       /\ Did("Share.from_bytes(bytes)")
            => (last'.err = "" /\ last'.ret.out = shares[1])
       /\ shares' # <<>> => IsShareBytes(Share_bytes(shares'[1]), shares'[1])
      ]_vars

\* a Share with a two-byte point and a value, decoded into a Share that
\* held another point and value
C11_RoundTrip_witness ==
    /\ last.op = "Share.from_bytes(bytes)"
    /\ shares[1].point >= ByteBase
    /\ shares[1].value # <<>>
    /\ last.ret.arg[1] # shares[1].point
    /\ last.ret.arg[2] # shares[1].value
    /\ last.ret.out = shares[1]

(***************************************************************************)
(* C12.  Secret validity: every Secret that exists has a non-empty value   *)
(* whose first byte is not zero and whose length is at most the largest    *)
(* level of the prime table in bytes; a construction, assignment or        *)
(* decoding that would break this raises and leaves the Secret as it was.  *)
(***************************************************************************)
LargestLevel == CHOOSE l \in DOMAIN _PRIMES : \A m \in DOMAIN _PRIMES : m <= l

ValidSecret(v) ==
    /\ Len(v) >= 1
    /\ v[1] # 0
    /\ Len(v) * BitsPerByte <= LargestLevel

SecretOps ==
    {"Secret", "Secret.from_bytes", "Secret.from_int", "Secret.from_hex",
     "Secret.from_bytes(bytes)", "Secret.from_int(int)"}

C12_SecretValid ==
    [][/\ ValidSecret(secret) /\ ValidSecret(secret')
       /\ \A op \in SecretOps :
            Did(op) => /\ ValidSecret(last'.ret.out)
                       /\ last'.err # "" => secret' = secret
       /\ (Did("Secret.from_bytes") /\ ~ValidSecret(last'.ret.arg))
            => (last'.err # "" /\ secret' = secret)
       /\ (Did("Secret.from_bytes") /\ ValidSecret(last'.ret.arg))
            => (last'.err = "" /\ secret' = last'.ret.arg)
      ]_vars

\* a value one byte too long, refused by a Secret that was assigned before
C12_SecretValid_witness ==
    /\ last.op = "Secret.from_bytes"
    /\ last.err = "ValueError"
    /\ Len(last.ret.arg) * BitsPerByte > LargestLevel
    /\ calls = 2
    /\ secret = <<3, 3, 3, 3>>

(***************************************************************************)
(* C13.  Share point: every Share that exists has a point from 1 to        *)
(* max_point, the largest level of the prime table less one; constructing  *)
(* a Share with, assigning or decoding a point outside that range raises   *)
(* and leaves the Share as it was.                                         *)
(***************************************************************************)
ValidPoint(point) == 1 <= point /\ point <= LargestLevel - 1

\* the point written in the first PointWidth bytes of bts, least
\* significant byte first
DecodedPoint(bts) ==
    SeqSum([i \in 1..(IF Len(bts) < PointWidth THEN Len(bts) ELSE PointWidth)
              |-> bts[i] * ByteBase ^ (i - 1)])

ShareOps ==
    {"Share", "Share.point", "Share.value", "Share.from_bytes",
     "Share.from_hex", "Share.from_bytes(bytes)"}

C13_SharePoint ==
    [][/\ shares' # <<>> => ValidPoint(shares'[1].point)
       /\ \A op \in ShareOps :
            Did(op) => /\ ValidPoint(last'.ret.out.point)
                       /\ last'.err # "" => shares' = shares
       /\ Did("Share") =>
            IF ValidPoint(last'.ret.arg[1])
            THEN last'.err = "" /\ shares'[1].point = last'.ret.arg[1]
            ELSE last'.err # "" /\ shares' = shares
       /\ Did("Share.point") =>
            IF ValidPoint(last'.ret.arg)
            THEN last'.err = "" /\ shares'[1].point = last'.ret.arg
            ELSE last'.err # "" /\ shares' = shares
       /\ Did("Share.from_bytes") =>
            IF ValidPoint(DecodedPoint(last'.ret.arg))
            THEN last'.err = ""
                 /\ shares'[1].point = DecodedPoint(last'.ret.arg)
            ELSE last'.err # "" /\ shares' = shares
      ]_vars

\* bytes that hold the point max_point + 1, refused by a Share whose point
\* is max_point
C13_SharePoint_witness ==
    /\ last.op = "Share.from_bytes"
    /\ last.err = "ValueError"
    /\ DecodedPoint(last.ret.arg) = LargestLevel
    /\ shares[1].point = LargestLevel - 1
    /\ shares[1].value # <<>>

(***************************************************************************)
(* C14.  from_hex: for every string d of hex digits, from_hex(d) and       *)
(* from_hex("0x" + d) both succeed and set the bytes that d, left-padded   *)
(* with one "0" to an even length, denotes (where those bytes are ones     *)
(* the object accepts), whether the length of d is even or odd.            *)
(***************************************************************************)
\* hex_value without its 0x prefix, if it has one
Unprefixed(hex_value) ==
    IF Len(hex_value) >= 2 /\ hex_value[1] = "0" /\ hex_value[2] = "x"
    THEN SubSeq(hex_value, 3, Len(hex_value)) ELSE hex_value

IsDigits(d) == \A i \in 1..Len(d) : d[i] \in {"0", "1"}

\* the number the digits d denote
RECURSIVE HexNumber(_)
HexNumber(d) ==
    IF Len(d) = 0 THEN 0
    ELSE HexNumber(SubSeq(d, 1, Len(d) - 1)) * NibbleBase
           + (IF d[Len(d)] = "1" THEN 1 ELSE 0)

\* the bytes d denotes once padded to an even length: two digits a byte
PaddedDecode(d) ==
    LET n == (Len(d) + 1) \div 2
    IN  [i \in 1..n |-> (HexNumber(d) \div (ByteBase ^ (n - i))) % ByteBase]

C14_FromHex ==
    [][/\ (/\ Did("Secret.from_hex")
           /\ IsDigits(Unprefixed(last'.ret.arg))
           /\ ValidSecret(PaddedDecode(Unprefixed(last'.ret.arg))))
            => /\ last'.err = ""
               /\ secret' = PaddedDecode(Unprefixed(last'.ret.arg))
       /\ (/\ Did("Share.from_hex")
           /\ IsDigits(Unprefixed(last'.ret.arg))
           /\ Len(PaddedDecode(Unprefixed(last'.ret.arg))) >= PointWidth
           /\ ValidPoint(DecodedPoint(PaddedDecode(Unprefixed(last'.ret.arg)))))
            => /\ last'.err = ""
               /\ IsShareBytes(PaddedDecode(Unprefixed(last'.ret.arg)),
                               shares'[1])
      ]_vars

\* What does hold: the same without the prefix, and with the prefix before
\* an odd number of digits; "0x" before an even number of digits raises
\* binascii.Error.
C14_FromHexUnlessPrefixedEven ==
    [][/\ (/\ Did("Secret.from_hex")
           /\ IsDigits(Unprefixed(last'.ret.arg))
           /\ ValidSecret(PaddedDecode(Unprefixed(last'.ret.arg))))
            => IF /\ Unprefixed(last'.ret.arg) # last'.ret.arg
                  /\ Len(last'.ret.arg) % 2 = 0
               THEN last'.err = "binascii.Error" /\ secret' = secret
               ELSE /\ last'.err = ""
                    /\ secret' = PaddedDecode(Unprefixed(last'.ret.arg))
       /\ (/\ Did("Share.from_hex")
           /\ IsDigits(Unprefixed(last'.ret.arg))
           /\ Len(PaddedDecode(Unprefixed(last'.ret.arg))) >= PointWidth
           /\ ValidPoint(DecodedPoint(PaddedDecode(Unprefixed(last'.ret.arg)))))
            => IF /\ Unprefixed(last'.ret.arg) # last'.ret.arg
                  /\ Len(last'.ret.arg) % 2 = 0
               THEN last'.err = "binascii.Error" /\ shares' = shares
               ELSE /\ last'.err = ""
                    /\ IsShareBytes(PaddedDecode(Unprefixed(last'.ret.arg)),
                                    shares'[1])
      ]_vars

(***************************************************************************)
(* C15.  get_closest_bits(bits=bits) returns the smallest level of the     *)
(* table that is >= bits, for every integer bits, and none exactly when    *)
(* bits exceeds the largest level.                                         *)
(***************************************************************************)
TableLevels == {primes_PRIMES[i].bits : i \in 1..Len(primes_PRIMES)}

TablePrime(level) ==
    primes_PRIMES[CHOOSE i \in 1..Len(primes_PRIMES) :
                    primes_PRIMES[i].bits = level].prime

\* the smallest of the levels L, none when there is no level in L
SmallestLevel(L) ==
    IF L = {} THEN None ELSE CHOOSE l \in L : \A m \in L : l <= m

C15_ClosestBits ==
    last.op = "get_closest_bits(bits)"
      => /\ last.ret.out
              = SmallestLevel({l \in TableLevels : l >= last.ret.arg})
         /\ last.ret.out = None
              <=> \A l \in TableLevels : last.ret.arg > l

\* bits strictly between two levels
C15_ClosestBits_witness ==
    /\ last.op = "get_closest_bits(bits)"
    /\ last.ret.arg \notin TableLevels
    /\ \E l \in TableLevels : l < last.ret.arg
    /\ last.ret.out \in TableLevels

(***************************************************************************)
(* C16.  get_closest_bits(num=num) returns, for every num >= 0, the        *)
(* smallest level whose prime is strictly greater than num, and            *)
(* get_closest(num=num) that prime; none exactly when no prime of the      *)
(* table exceeds num.                                                      *)
(***************************************************************************)
C16_ClosestNum ==
    last.op = "get_closest_bits(num)"
      => LET level == SmallestLevel({l \in TableLevels :
                                      TablePrime(l) > last.ret.arg})
         IN  /\ last.ret.out = level
             /\ last.prime = IF level = None THEN None ELSE TablePrime(level)
             /\ last.ret.out = None
                  <=> \A l \in TableLevels : TablePrime(l) <= last.ret.arg

\* What does hold: the level returned has a prime above num and is none
\* exactly when no prime of the table exceeds num; it is the smallest such
\* level unless num lies from 2^level up to the prime of a smaller level.
C16_ClosestNumAbove ==
    last.op = "get_closest_bits(num)"
      => /\ last.ret.out # None
              => /\ last.ret.out \in TableLevels
                 /\ TablePrime(last.ret.out) > last.ret.arg
                 /\ last.prime = TablePrime(last.ret.out)
                 /\ \A l \in TableLevels :
                      (l < last.ret.out /\ TablePrime(l) > last.ret.arg)
                        => last.ret.arg >= 2 ^ l
         /\ last.ret.out = None
              <=> \A l \in TableLevels : TablePrime(l) <= last.ret.arg

(***************************************************************************)
(* C17.  random_int(bits), for bits from the smallest to the largest       *)
(* level, returns a value from 0 up to but not including the closest       *)
(* prime for bits.                                                         *)
(***************************************************************************)
C17_RandomBelowPrime ==
    (last.op = "random_int" /\ last.err = "" /\ last.at = "")
      => /\ 0 <= last.ret.out
         /\ last.ret.out
              < TablePrime(SmallestLevel({l \in TableLevels :
                                            l >= last.ret.arg}))

\* What does hold: the value returned is at most the closest prime.
C17_RandomAtMostPrime ==
    (last.op = "random_int" /\ last.err = "" /\ last.at = "")
      => /\ 0 <= last.ret.out
         /\ last.ret.out
              <= TablePrime(SmallestLevel({l \in TableLevels :
                                             l >= last.ret.arg}))

(***************************************************************************)
(* C18.  In every reachable state of the engine threshold >= 2 and         *)
(* share_count >= 2: assigning a threshold or a share_count below 2 raises *)
(* an error and leaves the value held before unchanged.                    *)
(***************************************************************************)
C18_AtLeastTwo ==
    /\ [](threshold >= 2 /\ share_count >= 2)
    /\ [][/\ (Did("set_threshold") /\ last'.ret.arg < 2)
              => (last'.err = "ValueError" /\ threshold' = threshold)
          /\ (Did("set_share_count") /\ last'.ret.arg < 2)
              => (last'.err = "ValueError" /\ share_count' = share_count)
         ]_vars

\* a threshold below 2 has just been refused
C18_AtLeastTwo_witness ==
    /\ last.op = "set_threshold"
    /\ last.ret.arg < 2
    /\ last.err = "ValueError"
    /\ threshold >= 2

(***************************************************************************)
(* C19.  Lagrange interpolation is correct: for a prime p, k >= 1 points   *)
(* whose x are pairwise distinct modulo p and whose y are the values       *)
(* modulo p of a polynomial f of degree at most k - 1 over GF(p),          *)
(* lagrange_interpolate(x, x_s, y_s, p) is f(x) mod p (the constant term   *)
(* for x = 0) and lies in [0, p), also when numerators, denominators and   *)
(* inverses on the way are negative.                                       *)
(***************************************************************************)
C19_Lagrange ==
    LET x == last.ret.arg[1]
        x_s == last.ret.arg[2]
        y_s == last.ret.arg[3]
        p == last.ret.arg[4]
    IN  (/\ last.op = "lagrange_interpolate"
         /\ p >= 2
         /\ Len(x_s) >= 1
         /\ DistinctMod(x_s, p))
          => /\ last.err = ""
             /\ last.ret.out \in 0..(p - 1)
             /\ \A f \in [1..Len(x_s) -> 0..(p - 1)] :
                  (\A i \in 1..Len(x_s) : y_s[i] = PolyValue(f, x_s[i]) % p)
                    => /\ last.ret.out = PolyValue(f, x) % p
                       /\ x = 0 => last.ret.out = f[1]

\* three points given out of order, one of them negative and one beyond p,
\* for a polynomial with a constant term that is not zero
C19_Lagrange_witness ==
    /\ last.op = "lagrange_interpolate"
    /\ last.err = ""
    /\ Len(last.ret.arg[2]) = 3
    /\ last.ret.arg[2][1] > last.ret.arg[2][2]
    /\ \E i \in 1..3 : last.ret.arg[2][i] < 0
    /\ \E i \in 1..3 : last.ret.arg[2][i] >= last.ret.arg[4]
    /\ last.ret.arg[1] = 0
    /\ last.ret.out > 0

(***************************************************************************)
(* C20.  eval_poly_at_point(c, point, prime), for a list c of coefficients *)
(* from the lowest degree up, an integer point (0 and negative points      *)
(* too) and a prime >= 2, is the sum of c[i] * point^i modulo prime, lies  *)
(* in [0, prime), is c[0] mod prime at point 0 and 0 for the empty list,   *)
(* and is the same when called again with the same arguments.              *)
(***************************************************************************)
C20_Horner ==
    LET c == last.ret.arg[1]
        point == last.ret.arg[2]
        prime == last.ret.arg[3]
    IN  (last.op = "eval_poly_at_point" /\ prime >= 2)
          => /\ last.err = ""
             /\ last.ret.out = PolyValue(c, point) % prime
             /\ last.ret.out \in 0..(prime - 1)
             /\ (point = 0 /\ c # <<>>) => last.ret.out = c[1] % prime
             /\ c = <<>> => last.ret.out = 0
             /\ last.ret.out = eval_poly_at_point(c, point, prime)

\* a polynomial of degree two at a negative point, with a negative sum
C20_Horner_witness ==
    /\ last.op = "eval_poly_at_point"
    /\ last.err = ""
    /\ Len(last.ret.arg[1]) = 3
    /\ last.ret.arg[1][3] # 0
    /\ last.ret.arg[2] < 0
    /\ PolyValue(last.ret.arg[1], last.ret.arg[2]) < 0
    /\ last.ret.out > 0

(***************************************************************************)
(* C21.  Duplicate interpolation points fail fast: lagrange_interpolate    *)
(* given a list of x that holds a value twice fails on its assertion and   *)
(* returns no number, so combine() on held shares of which two have the    *)
(* same point fails and returns no secret.                                 *)
(***************************************************************************)
SamePointTwice(held) ==
    \E i, j \in 1..Len(held) : i # j /\ held[i].point = held[j].point

C21_DuplicatePoints ==
    [][(Did("combine") /\ SamePointTwice(shares))
         => /\ last'.err # ""
            /\ secret' = secret
            /\ last'.at # "validation"
                 => (last'.at = "lagrange_interpolate"
                       /\ last'.err = "AssertionError")
      ]_vars

\* combine has reached lagrange_interpolate with a point held twice
C21_DuplicatePoints_witness ==
    /\ last.op = "combine"
    /\ last.at = "lagrange_interpolate"
    /\ last.err = "AssertionError"
    /\ SamePointTwice(shares)

\* the function on its own: a list with a repeated x never gives a number
C21_LagrangeRejects ==
    (last.op = "lagrange_interpolate"
       /\ \E i, j \in 1..Len(last.ret.arg[2]) :
            i # j /\ last.ret.arg[2][i] = last.ret.arg[2][j])
      => (last.err # "" /\ last.ret.out = None)

(***************************************************************************)
(* C22.  _divmod is division in the field: for a prime p, a den that p     *)
(* does not divide (positive or negative) and 0 <= num < p, the result r   *)
(* of _divmod(num, den, p) is num * inverse(den) reduced modulo p:         *)
(* 0 <= r < p and (den * r) mod p = num.                                   *)
(***************************************************************************)
IsPrime(p) == p >= 2 /\ \A d \in 2..(p - 1) : p % d # 0

\* the call C22 is about
DividesInField ==
    /\ last.op = "_divmod"
    /\ IsPrime(last.ret.arg[3])
    /\ last.ret.arg[2] % last.ret.arg[3] # 0
    /\ last.ret.arg[1] \in 0..(last.ret.arg[3] - 1)

C22_DivmodReduced ==
    DividesInField
      => /\ last.err = ""
         /\ last.ret.out \in 0..(last.ret.arg[3] - 1)
         /\ (last.ret.arg[2] * last.ret.out) % last.ret.arg[3]
              = last.ret.arg[1]

\* What holds: den * r is congruent to num, and r is the product of num and
\* an inverse of den that is not reduced, so r may be negative or beyond p.
C22_DivmodCongruent ==
    DividesInField
      => /\ last.err = ""
         /\ (last.ret.arg[2] * last.ret.out) % last.ret.arg[3]
              = last.ret.arg[1]
         /\ \E inv \in (0 - last.ret.arg[3])..last.ret.arg[3] :
              /\ (last.ret.arg[2] * inv) % last.ret.arg[3] = 1 % last.ret.arg[3]
              /\ last.ret.out = last.ret.arg[1] * inv

\* a division by a negative den whose result is negative
C22_DivmodCongruent_witness ==
    /\ DividesInField
    /\ last.ret.arg[2] < 0
    /\ last.ret.arg[1] > 1
    /\ last.ret.out < 0

(***************************************************************************)
(* C23.  _extended_gcd(a, b) returns (x, y) with a*x + b*y = gcd(a, b),    *)
(* the greatest common divisor that is not negative, for every pair of     *)
(* integers a and b: positive, zero or negative a and b.                   *)
(***************************************************************************)
Abs(n) == IF n < 0 THEN 0 - n ELSE n

\* the greatest d that divides a and b; gcd(0, 0) = 0
Gcd(a, b) ==
    IF a = 0 /\ b = 0 THEN 0
    ELSE CHOOSE d \in 1..(Abs(a) + Abs(b)) :
           /\ a % d = 0 /\ b % d = 0
           /\ \A e \in 1..(Abs(a) + Abs(b)) :
                (a % e = 0 /\ b % e = 0) => e <= d

C23_Bezout ==
    last.op = "_extended_gcd"
      => last.ret.arg[1] * last.ret.out[1] + last.ret.arg[2] * last.ret.out[2]
           = Gcd(last.ret.arg[1], last.ret.arg[2])

\* What holds: the combination is gcd(a, b) when b > 0, or b = 0 and
\* a >= 0, and -gcd(a, b) otherwise: the remainders of Python's % take the
\* sign of b, and so does the last one that is not zero.
C23_BezoutUpToSign ==
    last.op = "_extended_gcd"
      => last.ret.arg[1] * last.ret.out[1] + last.ret.arg[2] * last.ret.out[2]
           = IF last.ret.arg[2] > 0
                \/ (last.ret.arg[2] = 0 /\ last.ret.arg[1] >= 0)
             THEN Gcd(last.ret.arg[1], last.ret.arg[2])
             ELSE 0 - Gcd(last.ret.arg[1], last.ret.arg[2])

\* a negative a with a positive b, and a negative b
C23_BezoutUpToSign_witness ==
    /\ last.op = "_extended_gcd"
    /\ last.ret.arg[2] < 0
    /\ last.ret.arg[1] > 1
    /\ Gcd(last.ret.arg[1], last.ret.arg[2]) = 1
    /\ last.ret.out[1] # 0
    /\ last.ret.out[2] # 0

(***************************************************************************)
(* C24.  An invalid field is rejected: _divmod, eval_poly_at_point and     *)
(* lagrange_interpolate each raise and return nothing whenever prime < 2,  *)
(* whatever their other arguments are, empty lists included.               *)
(***************************************************************************)
C24_InvalidField ==
    /\ (last.op = "_divmod" /\ last.ret.arg[3] < 2)
         => (last.err # "" /\ last.ret.out = None)
    /\ (last.op = "eval_poly_at_point" /\ last.ret.arg[3] < 2)
         => (last.err # "" /\ last.ret.out = None)
    /\ (last.op = "lagrange_interpolate" /\ last.ret.arg[4] < 2)
         => (last.err # "" /\ last.ret.out = None)

\* lagrange_interpolate on empty lists with the modulus 1
C24_InvalidField_witness ==
    /\ last.op = "lagrange_interpolate"
    /\ last.ret.arg[2] = <<>>
    /\ last.ret.arg[4] = 1
    /\ last.err = "ValueError"

(***************************************************************************)
(* C25.  The polynomial of one split has exactly threshold coefficients:   *)
(* coefficient 0 is the integer value of the engine's secret, each of the  *)
(* other threshold - 1 is a value in [0, prime) for the prime of the       *)
(* secret's field, so the polynomial is the secret at 0; every share of    *)
(* the split is a value of that one polynomial.                            *)
(***************************************************************************)
C25_SplitPolynomial ==
    (last.op = "split" /\ last.err = "")
      => /\ Len(last.poly) = threshold
         /\ last.poly[1] = bytes_to_int(secret)
         /\ \A i \in 2..Len(last.poly) :
              last.poly[i] \in 0..(FieldPrime(Len(secret)) - 1)
         /\ PolyValue(last.poly, 0) = bytes_to_int(secret)
         /\ PolyValue(last.poly, 0) < FieldPrime(Len(secret))
         /\ \A i \in 1..Len(shares) :
              bytes_to_int(shares[i].value)
                = PolyValue(last.poly, shares[i].point)
                    % FieldPrime(Len(secret))

\* a polynomial of degree two whose random coefficients are the smallest
\* and the largest of the field
C25_SplitPolynomial_witness ==
    /\ last.op = "split" /\ last.err = ""
    /\ threshold = 3
    /\ last.poly[2] = 0
    /\ last.poly[3] = FieldPrime(Len(secret)) - 1
    /\ Len(shares) > threshold

(***************************************************************************)
(* C26.  combine() only reads the held shares: whether it returns or       *)
(* raises, the held list (its length, its order, the point and the value   *)
(* of every share), threshold and share_count are what they were; when it  *)
(* returns, only the engine's secret has changed, to the Secret returned.  *)
(***************************************************************************)
C26_CombineReadsOnly ==
    [][Did("combine")
         => /\ Len(shares') = Len(shares)
            /\ \A i \in 1..Len(shares) :
                 /\ shares'[i].point = shares[i].point
                 /\ shares'[i].value = shares[i].value
            /\ threshold' = threshold
            /\ share_count' = share_count
            /\ secret' = IF last'.err = "" THEN last'.ret ELSE secret
      ]_vars

\* a combine that returned: the engine holds the secret returned and as
\* many shares as before, more than threshold of them
C26_CombineReadsOnly_witness ==
    /\ last.op = "combine"
    /\ last.err = ""
    /\ last.ret = secret
    /\ last.held = Len(shares)
    /\ Len(shares) > threshold

(***************************************************************************)
(* C27.  Every operation terminates: the loop of _extended_gcd reaches     *)
(* b = 0 for every pair of integers, negative and zero ones included; the  *)
(* rejection loop of random_int returns for every bits from the smallest   *)
(* to the largest level when the random source is fair; and where the      *)
(* prime for bits exceeds 2^bits the first draw is accepted.               *)
(***************************************************************************)
C27_Terminates ==
    /\ (last.op = "_extended_gcd")
         ~> (last.op = "_extended_gcd" /\ last.at = "")
    /\ (last.op = "random_int")
         ~> (last.op = "random_int" /\ last.at = "")
    /\ [][(/\ Did("random_int")
           /\ last'.err = ""
           /\ TablePrime(SmallestLevel({l \in TableLevels :
                                          l >= last'.ret.arg}))
                > 2 ^ last'.ret.arg)
            => last'.at = ""
        ]_vars

\* _extended_gcd has returned from a negative a and a negative b after more
\* than one turn of its loop
C27_Terminates_witness ==
    /\ last.op = "_extended_gcd"
    /\ last.at = ""
    /\ last.ret.arg[1] < 0
    /\ last.ret.arg[2] < 0
    /\ last.ret.out = _extended_gcd(last.ret.arg[1], last.ret.arg[2])
    /\ last.ret.out[1] \notin {0, 1}

(***************************************************************************)
(* C28.  Field adequacy: for every valid Secret (1 to max_bytes bytes, no  *)
(* leading zero byte) the engine's prime is defined (the level of the      *)
(* smallest power of two of bytes >= the secret's length is a key of the   *)
(* engine's table) and is strictly greater than the secret's integer and   *)
(* than max_share_count, so the secret and the points 1..share_count of a  *)
(* legal share count are distinct residues below the prime, none zero.     *)
(***************************************************************************)
C28_FieldAdequate ==
    LET level == BitsPerByte * SmallestPow2AtLeast(Len(secret), 1)
        n == bytes_to_int(secret)
    IN  ValidSecret(secret)
          => /\ level \in DOMAIN _PRIMES
             /\ FieldLevel(Len(secret)) \in DOMAIN _PRIMES
             /\ last.op = "prime"
                  => /\ last.ret.out # None
                     /\ last.ret.out = FieldPrime(Len(secret))
                     /\ last.ret.out > n
                     /\ last.ret.out >= FieldLevel(Len(secret))
                     /\ n % last.ret.out # 0
             /\ last.op = "max_share_count"
                  => /\ last.ret.out < FieldPrime(Len(secret))
                     /\ \A i, j \in 1..last.ret.out :
                          /\ i % FieldPrime(Len(secret)) # 0
                          /\ i # j => (i - j) % FieldPrime(Len(secret)) # 0

\* the prime of an engine whose secret is the largest of three bytes, a
\* length that is no power of two
C28_FieldAdequate_witness ==
    /\ last.op = "prime"
    /\ Len(secret) = 3
    /\ \A i \in 1..3 : secret[i] = ByteBase - 1
    /\ last.ret.out > bytes_to_int(secret)

(***************************************************************************)
(* C29.  combine() is idempotent: after a combine that returned, a second  *)
(* combine with the same held shares, threshold and share_count returns a  *)
(* secret equal to the first one, whatever secret the engine held before   *)
(* the first call.  (A second call that fails in the Secret() it builds    *)
(* is not held against the claim here: that is the failure of C30.)        *)
(***************************************************************************)
C29_CombineIdempotent ==
    [][(Did("combine") /\ last.op = "combine" /\ last.err = "")
         => \/ last'.at = "Secret()"
            \/ last'.err = "" /\ last'.ret = last.ret
      ]_vars

\* What holds: the second combine returns the same secret when the secret
\* the first one returned lies in the field the first one computed in.
C29_IdempotentInOneField ==
    [][(/\ Did("combine") /\ last.op = "combine" /\ last.err = ""
        /\ last.prime = FieldPrime(Len(last.ret)))
         => \/ last'.at = "Secret()"
            \/ last'.err = "" /\ last'.ret = last.ret
      ]_vars

(***************************************************************************)
(* C30.  Default secret generation always succeeds: a Secret built with    *)
(* no value never fails; for every r the random source may return for      *)
(* max_bits bits, 0 <= r < 2^max_bits, the bytes int_to_bytes(r) are a     *)
(* valid Secret (not empty, first byte not zero, at most max_bytes long).  *)
(***************************************************************************)
C30_DefaultSecret ==
    [][(Did("Secret") /\ last'.ret.arg = <<>>)
         => /\ last'.err = ""
            /\ ValidSecret(last'.ret.out)
            /\ secret' = last'.ret.out
      ]_vars

\* What holds: every draw but 0 gives a valid Secret; int_to_bytes(0) is the
\* one null byte, which the value setter refuses.
C30_DefaultSecretUnlessZero ==
    \A r \in randint_any(Primes_max_bits) :
      IF r = 0
      THEN Secret_random(r) = <<0>> /\ Secret_value_err(Secret_random(r)) # ""
      ELSE /\ Secret_value_err(Secret_random(r)) = ""
           /\ ValidSecret(Secret_random(r))

====
